---- MODULE Spec2Model ----
(***************************************************************************)
(* Model of engine/build.py: the resume build pipeline.                    *)
(*                                                                         *)
(* main() walks the entries of the resumes root, calls build_variant for   *)
(* every directory holding a resume.yaml, and then writes site/index.html. *)
(* build_variant loads and validates the configuration, prepares the       *)
(* build/output directories, renders eight artifacts, calls                *)
(* build_pdf_with_tectonic and publishes into site/<variant>.  Every       *)
(* exception is re-raised (line 319) and main catches nothing.             *)
(*                                                                         *)
(* A variant name is a natural number; the order of the numbers is the     *)
(* order sorted() gives the names.  The filesystem is kept as sets of the  *)
(* files present; a run starts on what an earlier run left on disk.        *)
(***************************************************************************)
EXTENDS Naturals, Sequences, FiniteSets, TLC

\* number of distinct names that can appear under the resumes root
NumVariants == 2

Variants == 1..NumVariants

\* line 18
REQUIRED_CONFIG_FIELDS == <<"name", "contact", "experience", "education">>

\* what RESUMES_DIR.iterdir() can yield for a name (lines 360-361)
EntryKinds == {"absent", "file", "dir", "variant"}

\* the style sheets that can exist as engine/styles/<name>.sty, in sorted order
StyleOrder == <<"default", "fancy">>

\* the artifacts build_variant writes, in the order of lines 283-302
Artifacts == <<"resume.tex", "header.tex", "mission.tex", "experience.tex",
               "education.tex", "interests.tex", "resume.html", "resume.md">>

\* the steps of build_pdf_with_tectonic, in the order of lines 127-174
TectonicSteps == <<"resolve", "cache", "checktex", "invoke", "exitcode", "checkpdf">>

\* the phases of one variant build, in order
PhaseOrder == <<"Pending", "Validating", "Rendering", "Compiling", "Publishing", "Done">>

Range(s) == { s[i] : i \in DOMAIN s }

\* the value of the "style" key of a parsed mapping
StyleValues ==
    { [kind |-> "absent", base |-> "absent", override |-> "absent"],
      [kind |-> "notdict", base |-> "absent", override |-> "absent"] }
    \cup [kind : {"dict"}, base : {"absent", "default", "fancy", "nosuch"},
          override : {"absent"}]

\* what yaml.safe_load can give for resume.yaml: a YAMLError, a document that is
\* no mapping (an empty file gives None, a list, a scalar), or a mapping
ParsedConfigs ==
    [kind : {"yamlerror", "nonmapping"}, fields : {{}},
     style : {[kind |-> "absent", base |-> "absent", override |-> "absent"]}]
    \cup [kind : {"mapping"}, fields : SUBSET Range(REQUIRED_CONFIG_FIELDS),
          style : StyleValues]

NoConfig == [kind |-> "none", fields |-> {},
             style |-> [kind |-> "absent", base |-> "absent", override |-> "absent"]]

NoError == [kind |-> "none", fields |-> <<>>, phase |-> "none"]

VARIABLES
    mpc,            \* main: "idle", "loop", "build", "done" (exit 0), "failed" (exit # 0)
    entries,        \* the resumes root of this run: name -> EntryKinds
    todo,           \* entries iterdir() has not yielded yet
    cur,            \* the variant build_variant is running for (0: none)
    variant_names,  \* main's list (line 358)
    bpc,            \* build_variant's position
    ridx,           \* artifacts rendered so far by the running build
    raw,            \* the configuration as yaml.safe_load returned it
    config,         \* the configuration after line 245
    err,            \* the exception that ended the run
    phase,          \* phase of each variant's build in this run
    effects,        \* what this run did for each variant (history)
    styles,         \* names of the .sty files in engine/styles
    build,          \* files in resumes/<v>/build
    output,         \* files in resumes/<v>/output
    site,           \* files in site/<v>
    siteDir,        \* site/ exists
    siteIndex,      \* site/index.html: [written, links]
    cacheDir,       \* the Tectonic bundle cache directory exists
    tec             \* the running build_pdf_with_tectonic call

vars == <<mpc, entries, todo, cur, variant_names, bpc, ridx, raw, config, err,
          phase, effects, styles, build, output, site, siteDir, siteIndex,
          cacheDir, tec>>

diskVars == <<build, output, site, siteDir, siteIndex, cacheDir>>
cfgVars  == <<raw, config>>

NoCall == [pc |-> "none", exe |-> FALSE, exit |-> 0, steps |-> <<>>,
           error |-> "none", logs |-> {}]

----------------------------------------------------------------------------
(* Pure helpers *)

\* a page that keeps the order of the list it is given
unsorted(s) == s

\* sorted(names), line 325: insertion into an ascending list
RECURSIVE sorted(_)
Insert(x, s) ==
    LET k == Cardinality({ i \in DOMAIN s : s[i] <= x })
    IN  SubSeq(s, 1, k) \o <<x>> \o SubSeq(s, k + 1, Len(s))

sorted(s) == IF s = <<>> THEN <<>> ELSE Insert(s[Len(s)], sorted(SubSeq(s, 1, Len(s) - 1)))

\* config.setdefault("style", {"base": "default", "override": None}), line 245
DefaultStyle == [kind |-> "dict", base |-> "default", override |-> "null"]

\* an assignment in place of setdefault: a given style is overwritten
setdefault_overwrite(c) == [c EXCEPT !.style = DefaultStyle]

setdefault_style(c) ==
    IF c.style.kind = "absent" THEN [c EXCEPT !.style = DefaultStyle] ELSE c

\* a validator that stops at the first missing field
missing_first(c) ==
    LET all == SelectSeq(REQUIRED_CONFIG_FIELDS, LAMBDA f : f \notin c.fields)
    IN  IF all = <<>> THEN <<>> ELSE <<all[1]>>

\* line 191
missing_fields(c) == SelectSeq(REQUIRED_CONFIG_FIELDS, LAMBDA f : f \notin c.fields)

\* line 213 and sorted() of line 218
available_styles == SelectSeq(StyleOrder, LAMBDA s : s \in styles)

\* validate_resume_config, lines 179-219: the exception it raises, or NoError
validate_resume_config(c) ==
    IF missing_fields(c) # <<>>
    THEN [kind |-> "MissingFields", fields |-> missing_fields(c), phase |-> "Validating"]
    ELSE IF c.style.kind = "absent" THEN NoError
    ELSE IF c.style.kind # "dict"
    THEN [kind |-> "StyleNotDict", fields |-> <<>>, phase |-> "Validating"]
    ELSE LET style_base == IF c.style.base = "absent" THEN "default" ELSE c.style.base
         IN  IF style_base \notin styles
             THEN [kind |-> "StyleNotFound", fields |-> available_styles,
                   phase |-> "Validating"]
             ELSE NoError

----------------------------------------------------------------------------
\* what a complete build of an earlier run left in resumes/<v>/build,
\* resumes/<v>/output and site/<v> (lines 253-312)
BuiltFiles == {".", "engine"} \cup styles \cup {"resume.pdf"}
              \cup { Artifacts[i] : i \in 1..6 }
OutputFiles == {".", "resume.html", "resume.md", "resume.pdf"}
SiteFiles == {".", "resume.pdf", "index.html"}

\* the program's own state before main is entered for the first time
InitProgram ==
    /\ mpc = "idle"
    /\ entries = [v \in Variants |-> "absent"]
    /\ todo = {}
    /\ cur = 0
    /\ variant_names = <<>>
    /\ bpc = "none"
    /\ ridx = 0
    /\ raw = NoConfig
    /\ config = NoConfig
    /\ err = NoError
    /\ phase = [v \in Variants |-> "Pending"]
    /\ effects = [v \in Variants |-> {}]
    /\ tec = NoCall

\* one run of main, on a fresh checkout or on the working tree that an
\* earlier, completed run left: the variants it had are built and published
\* and its index lists them
Init ==
    /\ InitProgram
    /\ styles \in SUBSET Range(StyleOrder)
    /\ \E before \in SUBSET Variants :
        /\ styles = {} => before = {}
        /\ build = [v \in Variants |-> IF v \in before THEN BuiltFiles ELSE {}]
        /\ output = [v \in Variants |-> IF v \in before THEN OutputFiles ELSE {}]
        /\ site = [v \in Variants |-> IF v \in before THEN SiteFiles ELSE {}]
        /\ siteDir = (before # {})
        /\ siteIndex = [written |-> before # {},
                        links |-> SelectSeq([i \in 1..NumVariants |-> i],
                                            LAMBDA v : v \in before)]
        /\ cacheDir = (before # {})

----------------------------------------------------------------------------
(* main, lines 352-369 *)

\* a loop that tests is_dir() alone
IsDir(v) == entries[v] \in {"dir", "variant"}

\* line 361: variant_dir.is_dir() and (variant_dir / "resume.yaml").exists()
IsVariantDir(v) == entries[v] = "variant"

\* line 229: config_path.exists()
HasConfig(v) == entries[v] = "variant"

\* an except clause that logs and returns instead of re-raising
build_variant_swallow(e) ==
    /\ phase' = [phase EXCEPT ![cur] = "Failed"]
    /\ err' = [e EXCEPT !.phase = phase[cur]]
    /\ bpc' = "none"
    /\ mpc' = "loop"
    /\ variant_names' = Append(variant_names, cur)

\* lines 316-319: the except clause re-raises; main has no handler, so the
\* exception ends the process with a failing status
build_variant_raise(e) ==
    /\ phase' = [phase EXCEPT ![cur] = "Failed"]
    /\ err' = [e EXCEPT !.phase = phase[cur]]
    /\ bpc' = "raised"
    /\ mpc' = "failed"
    /\ UNCHANGED variant_names

\* the build goes on: nothing is raised
build_variant_continue(next_bpc, next_phase) ==
    /\ phase' = [phase EXCEPT ![cur] = next_phase]
    /\ bpc' = next_bpc
    /\ UNCHANGED <<err, mpc, variant_names>>

\* an index that keeps the links it already had
write_site_index_merge(names) ==
    [written |-> TRUE, links |-> sorted(siteIndex.links \o names)]

\* write_site_index, lines 321-350: the page is built from the names alone
write_site_index(names) == [written |-> TRUE, links |-> sorted(names)]

\* main starts (lines 353-358); the resumes root is whatever the user left
\* there, and a removed variant directory takes its build and output
\* directories with it
StartRun ==
    /\ mpc = "idle"
    /\ \E e \in [Variants -> EntryKinds] :
        /\ entries' = e
        /\ todo' = { v \in Variants : e[v] # "absent" }
        /\ build' = [v \in Variants |-> IF e[v] \in {"dir", "variant"} THEN build[v] ELSE {}]
        /\ output' = [v \in Variants |-> IF e[v] \in {"dir", "variant"} THEN output[v] ELSE {}]
    /\ siteDir' = TRUE
    /\ variant_names' = <<>>
    /\ mpc' = "loop"
    /\ cur' = 0
    /\ bpc' = "none"
    /\ ridx' = 0
    /\ raw' = NoConfig
    /\ config' = NoConfig
    /\ err' = NoError
    /\ phase' = [v \in Variants |-> "Pending"]
    /\ effects' = [v \in Variants |-> {}]
    /\ tec' = NoCall
    /\ UNCHANGED <<styles, site, siteIndex, cacheDir>>

\* lines 360-361: iterdir() yields an entry that is no variant directory
MainSkip(v) ==
    /\ mpc = "loop"
    /\ v \in todo
    /\ ~IsVariantDir(v)
    /\ todo' = todo \ {v}
    /\ UNCHANGED <<mpc, entries, cur, variant_names, bpc, ridx, raw, config, err,
                   phase, effects, styles, tec>>
    /\ UNCHANGED diskVars

\* lines 360-362 and 222-231: iterdir() yields a variant directory (in any
\* order) and build_variant is entered; without a resume.yaml it returns at
\* once and main appends the name (line 363)
MainBuild(v) ==
    /\ mpc = "loop"
    /\ v \in todo
    /\ IsVariantDir(v)
    /\ todo' = todo \ {v}
    /\ cur' = v
    /\ ridx' = 0
    /\ raw' = NoConfig
    /\ config' = NoConfig
    /\ tec' = NoCall
    /\ IF HasConfig(v)
       THEN /\ mpc' = "build"
            /\ bpc' = "load"
            /\ phase' = [phase EXCEPT ![v] = "Validating"]
            /\ UNCHANGED variant_names
       ELSE /\ variant_names' = Append(variant_names, v)
            /\ UNCHANGED <<mpc, bpc, phase>>
    /\ UNCHANGED <<entries, err, effects, styles>>
    /\ UNCHANGED diskVars

\* lines 365-369: the loop is over, the index is written, main returns
WriteIndex ==
    /\ mpc = "loop"
    /\ todo = {}
    /\ siteDir' = TRUE
    /\ siteIndex' = write_site_index(variant_names)
    /\ mpc' = "done"
    /\ UNCHANGED <<entries, todo, cur, variant_names, bpc, ridx, raw, config, err,
                   phase, effects, styles, build, output, site, cacheDir, tec>>

----------------------------------------------------------------------------
(* build_variant, lines 221-319 *)

\* lines 236-245: parse resume.yaml and default the style key
LoadConfig ==
    /\ mpc = "build"
    /\ bpc = "load"
    /\ \E c \in ParsedConfigs :
        /\ raw' = c
        /\ IF c.kind = "yamlerror"
           THEN /\ config' = NoConfig
                /\ build_variant_raise([kind |-> "YAMLError", fields |-> <<>>,
                                        phase |-> "Validating"])
           ELSE IF c.kind = "nonmapping"
           THEN /\ config' = NoConfig
                /\ build_variant_raise([kind |-> "AttributeError", fields |-> <<>>,
                                        phase |-> "Validating"])
           ELSE /\ config' = setdefault_style(c)
                /\ build_variant_continue("validate", "Validating")
    /\ UNCHANGED <<entries, todo, cur, ridx, effects, styles, tec>>
    /\ UNCHANGED diskVars

\* a build that makes its directories before it validates
ValidateAfterMkdir ==
    /\ mpc = "build"
    /\ bpc = "validate"
    /\ output' = [output EXCEPT ![cur] = @ \cup {"."}]
    /\ build' = [build EXCEPT ![cur] = @ \cup {"."}]
    /\ effects' = [effects EXCEPT ![cur] = @ \cup {"build", "output"}]
    /\ IF validate_resume_config(config) # NoError
       THEN build_variant_raise(validate_resume_config(config))
       ELSE build_variant_continue("prepare", "Rendering")
    /\ UNCHANGED <<entries, todo, cur, ridx, styles, tec>>
    /\ UNCHANGED cfgVars
    /\ UNCHANGED <<site, siteDir, siteIndex, cacheDir>>

\* lines 247-248
ValidateConfig ==
    /\ mpc = "build"
    /\ bpc = "validate"
    /\ IF validate_resume_config(config) # NoError
       THEN build_variant_raise(validate_resume_config(config))
       ELSE build_variant_continue("prepare", "Rendering")
    /\ UNCHANGED <<entries, todo, cur, ridx, effects, styles, tec>>
    /\ UNCHANGED cfgVars
    /\ UNCHANGED diskVars

\* lines 250-276: the directories are made, the engine and the style sheets copied
PrepareDirs ==
    /\ mpc = "build"
    /\ bpc = "prepare"
    /\ output' = [output EXCEPT ![cur] = @ \cup {"."}]
    /\ build' = [build EXCEPT ![cur] = @ \cup {".", "engine"} \cup styles]
    /\ effects' = [effects EXCEPT ![cur] = @ \cup {"build", "output"}]
    /\ IF styles = {}
       THEN build_variant_raise([kind |-> "NoStyleFiles", fields |-> <<>>,
                                 phase |-> "Rendering"])
       ELSE build_variant_continue("render", "Rendering")
    /\ UNCHANGED <<entries, todo, cur, ridx, styles, tec>>
    /\ UNCHANGED cfgVars
    /\ UNCHANGED <<site, siteDir, siteIndex, cacheDir>>

\* the directory artifact number i is written to (lines 283-302)
ArtifactInBuild(i) == i <= 6

\* lines 283-302: the next artifact is written; after the last one the
\* compiler call starts (line 305)
RenderOk ==
    /\ mpc = "build"
    /\ bpc = "render"
    /\ ridx < Len(Artifacts)
    /\ ridx' = ridx + 1
    /\ IF ArtifactInBuild(ridx + 1)
       THEN /\ build' = [build EXCEPT ![cur] = @ \cup {Artifacts[ridx + 1]}]
            /\ UNCHANGED output
       ELSE /\ output' = [output EXCEPT ![cur] = @ \cup {Artifacts[ridx + 1]}]
            /\ UNCHANGED build
    /\ IF ridx + 1 = Len(Artifacts)
       THEN /\ build_variant_continue("tectonic", "Compiling")
            /\ tec' = [NoCall EXCEPT !.pc = "resolve"]
       ELSE /\ build_variant_continue("render", "Rendering")
            /\ UNCHANGED tec
    /\ UNCHANGED <<entries, todo, cur, effects, styles>>
    /\ UNCHANGED cfgVars
    /\ UNCHANGED <<site, siteDir, siteIndex, cacheDir>>

\* lines 38-58: render_template fails (the JSON dump is not a template)
RenderFail(kind) ==
    /\ mpc = "build"
    /\ bpc = "render"
    /\ ridx + 1 < Len(Artifacts)
    /\ build_variant_raise([kind |-> kind, fields |-> <<>>, phase |-> "Rendering"])
    /\ UNCHANGED <<entries, todo, cur, ridx, effects, styles, tec>>
    /\ UNCHANGED cfgVars
    /\ UNCHANGED diskVars

----------------------------------------------------------------------------
(* build_pdf_with_tectonic, lines 116-174, and run_command, lines 60-95 *)

LogFiles == {"resume.log", "texput.log"}

TecStep(name) == [tec EXCEPT !.steps = Append(@, name)]

\* the call goes on to the next step, or ends
TecGoto(name, pc) == [TecStep(name) EXCEPT !.pc = pc]
TecRaise(name, error) == [TecStep(name) EXCEPT !.pc = "raised", !.error = error]

tecFrame == <<mpc, entries, todo, cur, variant_names, bpc, ridx, raw, config, err,
              phase, styles, output, site, siteDir, siteIndex>>

\* lines 97-114 and 127: shutil.which("tectonic")
TecResolve ==
    /\ tec.pc = "resolve"
    /\ \E found \in BOOLEAN :
        tec' = IF found
               THEN [TecGoto("resolve", "cache") EXCEPT !.exe = TRUE]
               ELSE TecRaise("resolve", "ToolNotFound")
    /\ UNCHANGED <<build, cacheDir, effects>>
    /\ UNCHANGED tecFrame

\* lines 129-135: ensure_directory_exists(Path(bundle_cache))
TecEnsureCache ==
    /\ tec.pc = "cache"
    /\ cacheDir' = TRUE
    /\ tec' = TecGoto("cache", "checktex")
    /\ UNCHANGED <<build, effects>>
    /\ UNCHANGED tecFrame

\* lines 137-142
TecCheckTex ==
    /\ tec.pc = "checktex"
    /\ tec' = IF "resume.tex" \in build[cur]
              THEN TecGoto("checktex", "invoke")
              ELSE TecRaise("checktex", "InputMissing")
    /\ UNCHANGED <<build, cacheDir, effects>>
    /\ UNCHANGED tecFrame

\* lines 66-73 (called at 148): the compiler runs in the build directory; it
\* may or may not write resume.pdf and log files, and exits with some code
TecInvoke ==
    /\ tec.pc = "invoke"
    /\ \E code \in {0, 1}, pdf \in SUBSET {"resume.pdf"}, logs \in SUBSET LogFiles :
        /\ build' = [build EXCEPT ![cur] = @ \cup pdf \cup logs]
        /\ tec' = [TecGoto("invoke", "exitcode") EXCEPT !.exit = code]
    /\ effects' = [effects EXCEPT ![cur] = @ \cup {"compiler"}]
    /\ UNCHANGED cacheDir
    /\ UNCHANGED tecFrame

\* a run_command that never looks at the exit code
run_command_nocheck == TecGoto("exitcode", "checkpdf")

\* lines 75-95: a non-zero exit raises, with the log files that exist attached
run_command_check ==
    IF tec.exit # 0
    THEN [TecRaise("exitcode", "CompilationError") EXCEPT
             !.logs = build[cur] \cap LogFiles]
    ELSE TecGoto("exitcode", "checkpdf")

TecExitCode ==
    /\ tec.pc = "exitcode"
    /\ tec' = run_command_check
    /\ UNCHANGED <<build, cacheDir, effects>>
    /\ UNCHANGED tecFrame

\* lines 167-174
TecCheckPdf ==
    /\ tec.pc = "checkpdf"
    /\ tec' = IF "resume.pdf" \in build[cur]
              THEN TecGoto("checkpdf", "returned")
              ELSE TecRaise("checkpdf", "OutputMissing")
    /\ UNCHANGED <<build, cacheDir, effects>>
    /\ UNCHANGED tecFrame

Tectonic ==
    \/ TecResolve
    \/ TecEnsureCache
    \/ TecCheckTex
    \/ TecInvoke
    \/ TecExitCode
    \/ TecCheckPdf

----------------------------------------------------------------------------
(* build_variant, lines 304-319 *)

\* a compile step whose failure is caught and ignored
CompileFailIgnored ==
    /\ mpc = "build"
    /\ bpc = "tectonic"
    /\ tec.pc = "raised"
    /\ build_variant_continue("sitemkdir", "Publishing")
    /\ UNCHANGED <<entries, todo, cur, ridx, effects, styles, tec>>
    /\ UNCHANGED cfgVars
    /\ UNCHANGED diskVars

\* line 305 raised: the exception passes through the except clause
CompileFail ==
    /\ mpc = "build"
    /\ bpc = "tectonic"
    /\ tec.pc = "raised"
    /\ build_variant_raise([kind |-> tec.error, fields |-> <<>>, phase |-> "Compiling"])
    /\ UNCHANGED <<entries, todo, cur, ridx, effects, styles, tec>>
    /\ UNCHANGED cfgVars
    /\ UNCHANGED diskVars

\* lines 305-306: the call returned the PDF path; the PDF is copied to output
CopyPdfToOutput ==
    /\ mpc = "build"
    /\ bpc = "tectonic"
    /\ tec.pc = "returned"
    /\ output' = [output EXCEPT ![cur] = @ \cup {"resume.pdf"}]
    /\ build_variant_continue("sitemkdir", "Publishing")
    /\ UNCHANGED <<entries, todo, cur, ridx, effects, styles, tec>>
    /\ UNCHANGED cfgVars
    /\ UNCHANGED <<build, site, siteDir, siteIndex, cacheDir>>

\* lines 309-310: ensure_directory_exists(variant_site_dir)
PublishMkdir ==
    /\ mpc = "build"
    /\ bpc = "sitemkdir"
    /\ site' = [site EXCEPT ![cur] = @ \cup {"."}]
    /\ siteDir' = TRUE
    /\ effects' = [effects EXCEPT ![cur] =
                      @ \cup {"site"} \cup (IF "." \in site[cur] THEN {} ELSE {"sitechange"})]
    /\ build_variant_continue("sitepdf", "Publishing")
    /\ UNCHANGED <<entries, todo, cur, ridx, styles, tec>>
    /\ UNCHANGED cfgVars
    /\ UNCHANGED <<build, output, siteIndex, cacheDir>>

\* line 311
PublishPdf ==
    /\ mpc = "build"
    /\ bpc = "sitepdf"
    /\ site' = [site EXCEPT ![cur] = @ \cup {"resume.pdf"}]
    /\ effects' = [effects EXCEPT ![cur] = @ \cup {"site", "sitechange"}]
    /\ build_variant_continue("sitehtml", "Publishing")
    /\ UNCHANGED <<entries, todo, cur, ridx, styles, tec>>
    /\ UNCHANGED cfgVars
    /\ UNCHANGED <<build, output, siteDir, siteIndex, cacheDir>>

\* line 312
PublishHtml ==
    /\ mpc = "build"
    /\ bpc = "sitehtml"
    /\ site' = [site EXCEPT ![cur] = @ \cup {"index.html"}]
    /\ effects' = [effects EXCEPT ![cur] = @ \cup {"site", "sitechange"}]
    /\ build_variant_continue("return", "Publishing")
    /\ UNCHANGED <<entries, todo, cur, ridx, styles, tec>>
    /\ UNCHANGED cfgVars
    /\ UNCHANGED <<build, output, siteDir, siteIndex, cacheDir>>

\* lines 310-312 under the try of line 233: a directory creation or a copy
\* raises OSError
PublishFail ==
    /\ mpc = "build"
    /\ bpc \in {"sitemkdir", "sitepdf", "sitehtml"}
    /\ build_variant_raise([kind |-> "OSError", fields |-> <<>>, phase |-> "Publishing"])
    /\ UNCHANGED <<entries, todo, cur, ridx, effects, styles, tec>>
    /\ UNCHANGED cfgVars
    /\ UNCHANGED diskVars

\* lines 314 and 363: build_variant returns and main appends the name
BuildReturn ==
    /\ mpc = "build"
    /\ bpc = "return"
    /\ phase' = [phase EXCEPT ![cur] = "Done"]
    /\ bpc' = "none"
    /\ mpc' = "loop"
    /\ variant_names' = Append(variant_names, cur)
    /\ UNCHANGED <<entries, todo, cur, ridx, err, effects, styles, tec>>
    /\ UNCHANGED cfgVars
    /\ UNCHANGED diskVars

----------------------------------------------------------------------------
Next ==
    \/ StartRun
    \/ \E v \in Variants : MainSkip(v)
    \/ \E v \in Variants : MainBuild(v)
    \/ WriteIndex
    \/ LoadConfig
    \/ ValidateConfig
    \/ PrepareDirs
    \/ RenderOk
    \/ \E k \in {"TemplateSyntaxError", "TemplateNotFound", "RenderError"} : RenderFail(k)
    \/ TecResolve
    \/ TecEnsureCache
    \/ TecCheckTex
    \/ TecInvoke
    \/ TecExitCode
    \/ TecCheckPdf
    \/ CompileFail
    \/ CopyPdfToOutput
    \/ PublishMkdir
    \/ PublishPdf
    \/ PublishHtml
    \/ PublishFail
    \/ BuildReturn

Spec == Init /\ [][Next]_vars

----------------------------------------------------------------------------
(* build_pdf_with_tectonic on its own: the call is made on a build directory *)
(* in any state, with or without resume.tex, a PDF or logs of an earlier run *)

InitTectonic ==
    /\ mpc = "build"
    /\ entries = [v \in Variants |-> IF v = 1 THEN "variant" ELSE "absent"]
    /\ todo = {}
    /\ cur = 1
    /\ variant_names = <<>>
    /\ bpc = "tectonic"
    /\ ridx = 0
    /\ raw = NoConfig
    /\ config = NoConfig
    /\ err = NoError
    /\ phase = [v \in Variants |-> IF v = 1 THEN "Compiling" ELSE "Pending"]
    /\ effects = [v \in Variants |-> {}]
    /\ styles = {"default"}
    /\ \E files \in SUBSET ({"resume.tex", "resume.pdf"} \cup LogFiles) :
        build = [v \in Variants |-> IF v = 1 THEN {"."} \cup files ELSE {}]
    /\ output = [v \in Variants |-> {}]
    /\ site = [v \in Variants |-> {}]
    /\ siteDir = TRUE
    /\ siteIndex = [written |-> FALSE, links |-> <<>>]
    /\ cacheDir \in BOOLEAN
    /\ tec = [NoCall EXCEPT !.pc = "resolve"]

SpecTectonic == InitTectonic /\ [][Tectonic]_vars

----------------------------------------------------------------------------
(* Properties *)

RequiredFields == Range(REQUIRED_CONFIG_FIELDS)
AbsentFields(c) == RequiredFields \ c.fields
RunEnded == mpc \in {"done", "failed"}
VariantDirs == { v \in Variants : entries[v] = "variant" }
Published(v) == {"resume.pdf", "index.html"} \subseteq site[v]
Ascending(s) == \A i, j \in DOMAIN s : i < j => s[i] < s[j]
AllArtifactsOnDisk(v) == Range(Artifacts) \subseteq (build[v] \cup output[v])

\* the phase that goes with each position of build_variant
PhaseAt(pc) ==
    CASE pc \in {"load", "validate"} -> {"Validating"}
      [] pc \in {"prepare", "render"} -> {"Rendering"}
      [] pc = "tectonic" -> {"Compiling"}
      [] pc \in {"sitemkdir", "sitepdf", "sitehtml", "return"} -> {"Publishing"}
      [] pc = "raised" -> {"Failed"}
      [] OTHER -> {"Pending", "Done"}

\* one step along Pending, Validating, ..., Done, or into Failed from a phase
\* that is neither Done nor Failed
PhaseStep(p, q) ==
    \/ \E i \in 1..(Len(PhaseOrder) - 1) : p = PhaseOrder[i] /\ q = PhaseOrder[i + 1]
    \/ q = "Failed" /\ p \notin {"Done", "Failed"}

\* C1: a mapping that lacks required fields never gets past validation, and once
\* validated the build has failed with a missing-fields error that lists every
\* absent required field, each once, and no other
C1_AllMissingFieldsListed ==
    (raw.kind = "mapping" /\ AbsentFields(raw) # {} /\ bpc # "validate")
        => /\ mpc = "failed"
           /\ phase[cur] = "Failed"
           /\ err.kind = "MissingFields"
           /\ err.phase = "Validating"
           /\ Range(err.fields) = AbsentFields(raw)
           /\ Len(err.fields) = Cardinality(AbsentFields(raw))

C1_Witness ==
    /\ mpc = "failed"
    /\ raw.kind = "mapping"
    /\ raw.fields = {"contact"}
    /\ err.fields = <<"name", "experience", "education">>

\* C2: when validation fails, that build has made or written no build, output
\* or site directory, rendered nothing and never called the compiler
C2_ValidationFailureWritesNothing ==
    (mpc = "failed" /\ err.phase = "Validating")
        => /\ effects[cur] = {}
           /\ ridx = 0
           /\ tec = NoCall

C2_Witness ==
    /\ mpc = "failed"
    /\ err.kind = "MissingFields"
    /\ err.fields = <<"education">>
    /\ output[cur] # {}

\* C3: a failed variant build ends the run with a failing status at once: the
\* entries not yet visited stay untouched, and a run ends with status zero only
\* if every variant directory was built to Done
C3_FailureAbortsRun ==
    /\ \A v \in Variants : phase[v] = "Failed" => (mpc = "failed" /\ v = cur)
    /\ mpc = "failed" =>
          /\ phase[cur] = "Failed"
          /\ err.kind # "none"
          /\ \A v \in todo : phase[v] = "Pending" /\ effects[v] = {}
          /\ cur \notin Range(variant_names)
    /\ mpc = "done" => \A v \in VariantDirs : phase[v] = "Done"

C3_Witness ==
    /\ mpc = "failed"
    /\ err.phase = "Publishing"
    /\ \E v \in todo : entries[v] = "variant"

\* C4 as claimed: when a variant fails in load/validate, every other variant
\* directory of the run is still built
C4_OtherVariantsStillBuilt ==
    (RunEnded /\ err.phase = "Validating")
        => \A w \in VariantDirs \ {cur} : phase[w] # "Pending"

\* C4 as amended: a failure in load/validate marks that variant Failed and ends
\* the run; variants built before it stay Done and published, the variants
\* after it are not built
C4_ValidationFailureEndsRun ==
    /\ \A v \in Variants :
          (phase[v] = "Failed" /\ err.phase = "Validating") => mpc = "failed"
    /\ (mpc = "failed" /\ err.phase = "Validating") =>
          /\ phase[cur] = "Failed"
          /\ \A w \in todo : phase[w] = "Pending" /\ ~("site" \in effects[w])
          /\ \A w \in Range(variant_names) : phase[w] = "Done" /\ Published(w)

C4_Witness ==
    /\ mpc = "failed"
    /\ err.phase = "Validating"
    /\ \E w \in todo : entries[w] = "variant"

\* C5: when main has returned, the index links exactly the variant directories
\* built to Done in this run, each once, in ascending name order, and each of
\* them has its resume.pdf and index.html in the site tree
C5_IndexListsBuiltVariants ==
    mpc = "done" =>
        /\ siteIndex.written
        /\ Range(siteIndex.links) = { v \in VariantDirs : phase[v] = "Done" }
        /\ Ascending(siteIndex.links)
        /\ \A v \in Range(siteIndex.links) : Published(v)

C5_Witness ==
    /\ mpc = "done"
    /\ variant_names = <<2, 1>>
    /\ siteIndex.links = <<1, 2>>

\* C6: a directory without resume.yaml is never built: nothing is made or
\* written for it, the run never fails in it, and it is in no list or index
\* of the run
C6_DirWithoutConfigSkipped ==
    \A v \in Variants : entries[v] = "dir" =>
        /\ phase[v] = "Pending"
        /\ effects[v] = {}
        /\ cur # v
        /\ v \notin Range(variant_names)
        /\ mpc = "done" => v \notin Range(siteIndex.links)

C6_Witness ==
    /\ mpc = "done"
    /\ \E v \in Variants : entries[v] = "dir" /\ v \notin todo
    /\ \E w \in Variants : phase[w] = "Done"

\* C7 as claimed: at the end of every run the index lists only variants of
\* that run's source set
C7_IndexOfEveryRun ==
    RunEnded => Range(siteIndex.links) \subseteq VariantDirs

\* C7 as amended: no step removes a file of site/<variant>; a run that
\* completes rewrites the index to list exactly its own variants, and no other
\* step changes the index
C7_SiteKeptIndexRewritten ==
    [][ /\ \A v \in Variants : site[v] \subseteq site'[v]
        /\ mpc' = "done" => Range(siteIndex'.links) = { v \in Variants : entries'[v] = "variant" }
        /\ (mpc' # "done" \/ mpc = "done") => siteIndex' = siteIndex
      ]_vars

C7_Witness ==
    /\ mpc = "done"
    /\ \E v \in Variants :
          /\ entries[v] = "absent"
          /\ Published(v)
          /\ v \notin Range(siteIndex.links)
    /\ siteIndex.links # <<>>

\* C8: once loaded, a mapping that had no style key has the default style, a
\* mapping that had one is unchanged, and a mapping with all required fields
\* and no style key passes validation when default.sty exists
C8_DefaultStyleInjected ==
    raw.kind = "mapping" =>
        /\ config.fields = raw.fields
        /\ raw.style.kind = "absent" =>
              config.style = [kind |-> "dict", base |-> "default", override |-> "null"]
        /\ raw.style.kind # "absent" => config = raw
        /\ (/\ raw.style.kind = "absent"
            /\ AbsentFields(raw) = {}
            /\ "default" \in styles
            /\ bpc # "validate") => err.phase # "Validating"

C8_Witness ==
    /\ raw.kind = "mapping"
    /\ raw.style.kind = "absent"
    /\ AbsentFields(raw) = {}
    /\ bpc = "prepare"

\* what C9 says of every state, but for the Failed variants
C9_Gates ==
    /\ cur # 0 => phase[cur] \in PhaseAt(bpc)
    /\ \A v \in Variants :
          /\ "compiler" \in effects[v] => AllArtifactsOnDisk(v)
          /\ ("compiler" \in effects[v] /\ v = cur) => ridx = Len(Artifacts)
          /\ "site" \in effects[v] =>
                /\ "compiler" \in effects[v]
                /\ "resume.pdf" \in build[v] \cap output[v]
                /\ v = cur => (tec.pc = "returned" /\ tec.exit = 0)

\* C9 as claimed, for the Failed variants: a variant that ends in Failed has
\* changed nothing under site/<variant>
C9_FailedChangedNoSite ==
    C9_Gates /\ \A v \in Variants : phase[v] = "Failed" => ~("sitechange" \in effects[v])

\* C9 as amended: a phase changes only by one step along the
\* order, or into Failed from a phase that is neither Done nor Failed; the
\* compiler runs only after all eight artifacts were written; site/<variant>
\* is written only after the compiler call returned with exit code zero; and a
\* variant that failed before Publishing has written nothing under
\* site/<variant>
C9_PhaseOrder ==
    /\ [](/\ C9_Gates
          /\ \A v \in Variants :
                (phase[v] = "Failed" /\ err.phase # "Publishing")
                    => ~("site" \in effects[v]))
    /\ [][ \A v \in Variants :
              phase'[v] # phase[v] => PhaseStep(phase[v], phase'[v]) ]_vars

C9_Witness ==
    /\ mpc = "failed"
    /\ err.phase = "Publishing"
    /\ "resume.pdf" \in site[cur]
    /\ ~("index.html" \in site[cur])

\* C10: the steps of build_pdf_with_tectonic run in the fixed order; the
\* compiler is started only with the executable resolved and resume.tex in
\* the build directory; the call returns only after exit code zero with
\* resume.pdf present; exit zero without a PDF raises the output-missing
\* error, and a non-zero exit raises the compilation error whatever logs exist
C10_TectonicSteps ==
    /\ Len(tec.steps) <= Len(TectonicSteps)
    /\ tec.steps = SubSeq(TectonicSteps, 1, Len(tec.steps))
    /\ "invoke" \in Range(tec.steps) => (tec.exe /\ "resume.tex" \in build[cur])
    /\ tec.pc = "returned" =>
          /\ tec.steps = TectonicSteps
          /\ tec.exit = 0
          /\ "resume.pdf" \in build[cur]
    /\ (tec.pc \in {"returned", "raised"} /\ "invoke" \in Range(tec.steps)) =>
          /\ (tec.exit = 0 /\ ~("resume.pdf" \in build[cur]))
                => (tec.pc = "raised" /\ tec.error = "OutputMissing")
          /\ tec.exit # 0 => (tec.pc = "raised" /\ tec.error = "CompilationError")

C10_Witness ==
    /\ tec.pc = "raised"
    /\ tec.error = "CompilationError"
    /\ tec.logs = {}
    /\ "resume.pdf" \in build[cur]

====
